---- MODULE Spec2Model ----
(***************************************************************************)
(* A model of src/random.hpp (namespace minion): the Lehmer64Fast engine,  *)
(* the Random facade's draw operations, the bounded-range algorithm        *)
(* random_u64_range, the ziggurat exponential sampler, the multilinear     *)
(* hash behind SeedSeq, and AliasTable construction and query.             *)
(*                                                                         *)
(* Word widths.  TLC's integers are 32 bits wide, so the machine words of  *)
(* the engine, the range algorithm, the ziggurat and the alias table are   *)
(* modelled at a scaled width: uint32_t has U32_BITS bits, uint64_t twice  *)
(* and __uint128_t four times that many, and every operation wraps modulo  *)
(* its own width exactly as the C++ types do.  The seed hash (SeedSeq) is  *)
(* modelled at its true width, on base-256 digit sequences, with the       *)
(* constants of the source.                                                *)
(***************************************************************************)
EXTENDS Integers, Sequences, FiniteSets, TLC

VARIABLES
    state_,     \* Lehmer64Fast::state_ of each engine instance
    log,        \* the operations performed on engine 1, in order
    out,        \* per engine: what each operation returned, in order
    pos,        \* how many operations of log engine 2 has performed
    r_range,    \* random_u64_range: the caller's range
    r_x,        \* random_u64_range: the raw draw x in hand
    r_pc,       \* random_u64_range: "idle", "loop" (line 153) or "ret"
    r_ret,      \* random_u64_range: the value returned
    r_redrawn,  \* random_u64_range: the call has drawn again at line 154
    a_,         \* AliasTable::a_, indexed from 0
    p_,         \* AliasTable::p_, indexed from 0
    shr_,       \* AliasTable::shr_
    t_pc,       \* the table: "off", "new", "built" or "queried"
    t_n,        \* how many times the table has been constructed
    t_w,        \* the weight vector of the last construction
    t_main,     \* the slots the last construction's main loop assigned
    t_final,    \* the slots the last construction's fill-in assigned
    t_u,        \* the raw draw of the last Get
    t_ret,      \* what the last Get returned
    ek,         \* detail::ek, the layers' integer bounds
    ew,         \* detail::ew, the layers' scale factors
    x_pc,       \* Random::exp: "off", "idle", "loop", "redraw" or "ret"
    x_mean,     \* Random::exp: the caller's mean
    x_a,        \* random_exp_zig: a
    x_b,        \* random_exp_zig: b
    x_path,     \* which return statement ended the call
    x_f,        \* the f52 draw of the tail, in units of 2^-(MANT_BITS + 1)
    x_val,      \* the product a * ew[b] * mean a return statement computed
    x_reads,    \* the indices of ef the call has read
    q_in,       \* per SeedSeq object: the value it was seeded from, or -1
    q_state,    \* per SeedSeq object: SeedSeq::state_
    q_seed      \* per SeedSeq object: the seed_type Generate has filled

vars == <<state_, log, out, pos, r_range, r_x, r_pc, r_ret, r_redrawn,
          a_, p_, shr_, t_pc, t_n, t_w, t_main, t_final, t_u, t_ret,
          ek, ew, x_pc, x_mean, x_a, x_b, x_path, x_f, x_val, x_reads,
          q_in, q_state, q_seed>>

(***************************************************************************)
(* Bounds of the model.                                                    *)
(***************************************************************************)
U32_BITS == 3      \* width of uint32_t in the model
MaxOps == 2        \* operations performed on an engine in one run
MaxRange == 3      \* largest range passed to Random::u64(range) on an engine
MaxDiscard == 2    \* largest count passed to Discard
MaxWeights == 5    \* longest weight vector given to AliasTable::Create
MaxSeedInput == 7  \* largest value a SeedSeq is seeded from

(***************************************************************************)
(* Machine words.                                                          *)
(***************************************************************************)
U64_BITS == 2 * U32_BITS
RTYPE_BITS == U64_BITS
STYPE_BITS == 2 * U64_BITS

Pow2(n) == 2 ^ n

U32 == 0 .. Pow2(U32_BITS) - 1
U64 == 0 .. Pow2(U64_BITS) - 1

Shr(u, n) == u \div Pow2(n)
Trunc(u, bits) == u % Pow2(bits)

(***************************************************************************)
(* Lehmer64Fast                                                            *)
(***************************************************************************)
Engines == {1, 2}

\* The low bits of 0xda942042e4dd58b5, truncated to the result width.
MCG_MULT == 22709 % Pow2(RTYPE_BITS)

\* The low bits of the default constructor argument 0x9f57c403d06c42fc.
DefaultState == 17148 % Pow2(STYPE_BITS)

\* A SetState that stores its argument as it is.
SetStateNoOr(state) == state

\* state_ = state | 1
SetState(state) == IF state % 2 = 0 THEN state + 1 ELSE state

\* std::memcpy(&state, &seed, sizeof(seed)) on a little-endian build: word i
\* of the array lands U32_BITS * i bits up in the state.
SeedToState(seed) ==
    seed[1] + Pow2(U32_BITS) * (seed[2] + Pow2(U32_BITS) * (seed[3] + Pow2(U32_BITS) * seed[4]))

Seed(seed) == SetState(SeedToState(seed))

\* state_ *= MCG_MULT, in state_type
Advance(state) == (state * MCG_MULT) % Pow2(STYPE_BITS)

RECURSIVE Discard(_, _)
Discard(state, count) ==
    IF count = 0 THEN state ELSE Discard(Advance(state), count - 1)

\* What operator() returns once the state has advanced to `state`.
Output(state) == Shr(state, STYPE_BITS - RTYPE_BITS)

\* The next n values operator() returns from `state`.
RECURSIVE Draws(_, _)
Draws(state, n) ==
    IF n = 0 THEN <<>> ELSE <<Output(Advance(state))>> \o Draws(Advance(state), n - 1)

(***************************************************************************)
(* detail:: derivations of one raw draw                                    *)
(***************************************************************************)
\* The draw reinterpreted as a signed word, without the shift.
random_i63_signed(u) == IF u >= Pow2(U64_BITS - 1) THEN u - Pow2(U64_BITS) ELSE u

random_i63(u) == Shr(u, 1)
random_u32(u) == Shr(u, U32_BITS)
random_u32_pair(u) == <<Trunc(u, U32_BITS), Trunc(Shr(u, U32_BITS), U32_BITS)>>

(***************************************************************************)
(* random_u64_range                                                        *)
(***************************************************************************)
\* The threshold without its final modulo: one subtraction only.
RangeThresholdNoMod(range) ==
    LET t0 == (Pow2(U64_BITS) - range) % Pow2(U64_BITS)
    IN  IF t0 >= range THEN t0 - range ELSE t0

\* uint64_t t = -range, then the conditional subtraction and the modulo.
RangeThreshold(range) ==
    LET t0 == (Pow2(U64_BITS) - range) % Pow2(U64_BITS)
        t1 == IF t0 >= range THEN t0 - range ELSE t0
    IN  IF t0 >= range /\ t1 >= range THEN t1 % range ELSE t1

RangeLow(x, range) == (x * range) % Pow2(U64_BITS)
RangeHigh(x, range) == Shr(x * range, U64_BITS)

\* The first draw is sent into the loop: l < range and then l < t.
RangeFirstRejects(x, range) ==
    RangeLow(x, range) < range /\ RangeLow(x, range) < RangeThreshold(range)

\* A draw made inside the loop is drawn again: while(l < t).
RangeLoopRejects(x, range) == RangeLow(x, range) < RangeThreshold(range)

\* The whole call on the stream xs of raw draws: the value returned and how
\* many draws it used (used = 0: the draws of xs were all rejected).
RECURSIVE RangeLoop(_, _, _)
RangeLoop(range, xs, i) ==
    IF i > Len(xs) THEN [ret |-> 0, used |-> 0]
    ELSE IF RangeLoopRejects(xs[i], range) THEN RangeLoop(range, xs, i + 1)
    ELSE [ret |-> RangeHigh(xs[i], range), used |-> i]

random_u64_range(range, xs) ==
    IF RangeFirstRejects(xs[1], range)
    THEN RangeLoop(range, xs, 2)
    ELSE [ret |-> RangeHigh(xs[1], range), used |-> 1]

(***************************************************************************)
(* Random: the operations of the facade, as values.  An operation is       *)
(* [op, arg], arg the tuple of its arguments; Exec gives the engine state  *)
(* it leaves, what it returns (a tuple: empty for void, two values for     *)
(* u32_pair), whether the call ends within the draws the model looks       *)
(* ahead, and whether it ended in a fault (an assertion or a trap) instead *)
(* of returning.                                                           *)
(***************************************************************************)
DrawFuel == 2 * U64_BITS

SeedStates == {0, 5, Pow2(STYPE_BITS) - 2}
SeedArrays == {<<4, 0, 0, 0>>, <<2, 0, 1, Pow2(U32_BITS) - 1>>}
BitCounts == {1, U64_BITS}

Op(name, arg) == [op |-> name, arg |-> arg]

Done(st, ret) == [st |-> st, ret |-> ret, done |-> TRUE, fault |-> FALSE]

\* Random::u64(range): random_u64_range(range, *this).  No path of it checks
\* range, so it never faults.
ExecRange(range, state) ==
    LET r == random_u64_range(range, Draws(state, DrawFuel))
    IN  [st |-> Discard(state, r.used), ret |-> <<r.ret>>,
         done |-> r.used > 0, fault |-> FALSE]

Exec(o, state) ==
    CASE o.op = "SetState" -> Done(SetState(o.arg[1]), <<>>)
      [] o.op = "Seed"     -> Done(Seed(o.arg), <<>>)
      [] o.op = "Advance"  -> Done(Advance(state), <<>>)
      [] o.op = "Discard"  -> Done(Discard(state, o.arg[1]), <<>>)
      [] o.op = "call"     -> Done(Advance(state), <<Output(Advance(state))>>)
      [] o.op = "bits"     -> Done(Advance(state),
                                   <<Shr(Output(Advance(state)), U64_BITS - o.arg[1])>>)
      [] o.op = "u32"      -> Done(Advance(state), <<random_u32(Output(Advance(state)))>>)
      [] o.op = "u32_pair" -> Done(Advance(state), random_u32_pair(Output(Advance(state))))
      [] o.op = "u64"      -> Done(Advance(state), <<Output(Advance(state))>>)
      [] o.op = "u64r"     -> ExecRange(o.arg[1], state)

\* Every engine instance has a state_ of its own.
StoreShared(st, e, value) == [x \in DOMAIN st |-> value]

Store(st, e, value) == [st EXCEPT ![e] = value]

Construct(c) ==
    CASE c.op = "default" -> SetState(DefaultState)
      [] c.op = "state"   -> SetState(c.arg[1])
      [] c.op = "seed"    -> Seed(c.arg)

Ctors ==
    {Op("default", <<>>)} \cup {Op("state", <<s>>) : s \in SeedStates}
                       \cup {Op("seed", a) : a \in SeedArrays}

(***************************************************************************)
(* AliasTable                                                              *)
(*                                                                         *)
(* Vectors are functions on 0 .. size - 1.  The weights are small integers,*)
(* so every double of CreateInplace is a multiple of 1/sz and is held      *)
(* exactly: the model keeps sz * v[i] and sz * d as integers (sd below),   *)
(* which leaves every comparison and every sum and difference of the       *)
(* source as it is, and static_cast<uint32_t>(4294967296.0 / d * v[m]) is  *)
(* the floor of 2^32 * v[m] / d.                                           *)
(***************************************************************************)
\* A RoundUp whose loop runs while y <= x.
RECURSIVE RoundUpLoopLeq(_, _, _)
RoundUpLoopLeq(x, y, k) ==
    IF y <= x THEN RoundUpLoopLeq(x, 2 * y, k + 1) ELSE <<y, k>>

RoundUpLeq(x) == RoundUpLoopLeq(x, 2, 1)

\* for(; y < x; y *= 2, ++k), from y = 2, k = 1
RECURSIVE RoundUpLoop(_, _, _)
RoundUpLoop(x, y, k) ==
    IF y < x THEN RoundUpLoop(x, 2 * y, k + 1) ELSE <<y, k>>

RoundUp(x) == RoundUpLoop(x, 2, 1)

\* std::vector::resize(sz, fill)
Resize(vec, n, sz, fill) == [i \in 0 .. sz - 1 |-> IF i < n THEN vec[i] ELSE fill]

\* std::numeric_limits<uint32_t>::max()
U32_MAX == Pow2(U32_BITS) - 1

RECURSIVE SumTo(_, _)
SumTo(w, n) == IF n = 0 THEN 0 ELSE w[n] + SumTo(w, n - 1)

\* for(; g < sz && (*v)[g] < d; ++g)
RECURSIVE ScanLarge(_, _, _, _)
ScanLarge(v, g, sz, sd) ==
    IF g < sz /\ v[g] < sd THEN ScanLarge(v, g + 1, sz, sd) ELSE g

\* for(; m < sz && (*v)[m] >= d; ++m)
RECURSIVE ScanSmall(_, _, _, _)
ScanSmall(v, m, sz, sd) ==
    IF m < sz /\ v[m] >= sd THEN ScanSmall(v, m + 1, sz, sd) ELSE m

\* A threshold on half the scale: 2147483648.0 / d * (*v)[m].
ThresholdHalfScale(vm, sd) == (Pow2(U32_BITS - 1) * vm) \div sd

\* static_cast<uint32_t>(4294967296.0 / d * (*v)[m]); vm and sd are (*v)[m]
\* and d, both multiplied by sz.
Threshold(vm, sd) == (Pow2(U32_BITS) * vm) \div sd

\* One pass of the body of while(g < sz && m < sz), lines 503-517.
TableStep(c, sz, sd) ==
    LET g == c.g
        m == c.m
        v1 == [c.v EXCEPT ![g] = (c.v[g] + c.v[m]) - sd]
        rescan == v1[g] >= sd \/ c.mm <= g
        m1 == IF rescan THEN ScanSmall(v1, c.mm, sz, sd) ELSE g
    IN  [v |-> v1,
         p |-> [c.p EXCEPT ![m] = Threshold(c.v[m], sd)],
         a |-> [c.a EXCEPT ![m] = g],
         g |-> ScanLarge(v1, g, sz, sd),
         m |-> m1,
         mm |-> IF rescan THEN m1 + 1 ELSE c.mm,
         main |-> c.main \cup {m}]

RECURSIVE TableLoop(_, _, _)
TableLoop(c, sz, sd) ==
    IF c.g < sz /\ c.m < sz THEN TableLoop(TableStep(c, sz, sd), sz, sd) ELSE c

\* The slots the block at lines 520-528 assigns: g, and every later slot
\* whose weight is not below d.
FillLargeFirstOnly(c, sz, sd) == IF c.g < sz THEN {c.g} ELSE {}

FillLarge(c, sz, sd) ==
    IF c.g < sz
    THEN {c.g} \cup {j \in c.g + 1 .. sz - 1 : ~(c.v[j] < sd)}
    ELSE {}

\* The slots the block at lines 530-538 assigns: m, and every slot from mm
\* on whose weight is not above d.
FillSmall(c, sz, sd) ==
    IF c.m < sz
    THEN {c.m} \cup {j \in c.mm .. sz - 1 : ~(c.v[j] > sd)}
    ELSE {}

\* AliasTable::CreateInplace on the weight vector w (a sequence) of an
\* instance that holds olda, oldp: the members it leaves, and which slots
\* it assigned.
CreateInplace(w, olda, oldp) ==
    LET n == Len(w)
        ru == RoundUp(n)
        sz == ru[1]
        oldn == Cardinality(DOMAIN olda)
        v0 == [i \in 0 .. sz - 1 |-> IF i < n THEN sz * w[i + 1] ELSE 0]
        sd == SumTo(w, n)
        g0 == ScanLarge(v0, 0, sz, sd)
        m0 == ScanSmall(v0, 0, sz, sd)
        c == TableLoop([v |-> v0,
                        p |-> Resize(oldp, oldn, sz, 0),
                        a |-> Resize(olda, oldn, sz, 0),
                        g |-> g0, m |-> m0, mm |-> m0 + 1, main |-> {}],
                       sz, sd)
        final == FillLarge(c, sz, sd) \cup FillSmall(c, sz, sd)
    IN  [a |-> [i \in 0 .. sz - 1 |-> IF i \in final THEN i ELSE c.a[i]],
         p |-> [i \in 0 .. sz - 1 |-> IF i \in final THEN U32_MAX ELSE c.p[i]],
         shr |-> U64_BITS - ru[2],
         main |-> c.main,
         final |-> final]

\* yx = detail::random_u32_pair(u >> shr_): yx.first is compared with the
\* threshold of slot yx.second.
GetCmp(u) == random_u32_pair(Shr(u, shr_))[1]
GetSlot(u) == random_u32_pair(Shr(u, shr_))[2]

Get(u) == IF GetCmp(u) < p_[GetSlot(u)] THEN GetSlot(u) ELSE a_[GetSlot(u)]

WeightValues == {0, 1, 3}
Weights == UNION {[1 .. n -> WeightValues] : n \in 0 .. MaxWeights}

\* The vectors a table that has been constructed is constructed from again.
AgainWeights == {<<1>>, <<0, 3, 1>>, <<1, 1, 1, 0, 3>>}

tableVars == <<a_, p_, shr_, t_pc, t_n, t_w, t_main, t_final, t_u, t_ret>>

TableIdle ==
    /\ a_ = <<>> /\ p_ = <<>> /\ shr_ = 0
    /\ t_pc = "off" /\ t_n = 0 /\ t_w = <<>>
    /\ t_main = {} /\ t_final = {} /\ t_u = 0 /\ t_ret = 0

(***************************************************************************)
(* random_f52 and the ziggurat sampler                                     *)
(*                                                                         *)
(* A double of random_f52 is held as its numerator over 2^(MANT_BITS + 1): *)
(* the draw's top MANT_BITS bits k, OR-ed into the mantissa of 1.0, are    *)
(* 1 + k / 2^MANT_BITS, and the constant subtracted is 1 - 2^-(MANT_BITS+1)*)
(* (0.99999999999999988 = 1 - 2^-53 for the 52-bit mantissa).  ek holds    *)
(* integers and ew non-negative scale factors, as integers; the outcome of *)
(* the comparison with exp(-x) at line 195 is left open.                   *)
(***************************************************************************)
MANT_BITS == U64_BITS - 2
LAYER_BITS == U32_BITS - 1
Layers == 0 .. Pow2(LAYER_BITS) - 1

random_f52(u) == 2 * Shr(u, U64_BITS - MANT_BITS) + 1

\* a & 255, on the two's complement word of a
LayerOf(a) == a % Pow2(LAYER_BITS)

EkTables ==
    {[b \in Layers |-> 0],
     [b \in Layers |-> Pow2(U64_BITS - 2) + b],
     [b \in Layers |-> Pow2(U64_BITS - 1) - 1]}

EwTables == {[b \in Layers |-> 0], [b \in Layers |-> 1], [b \in Layers |-> b + 2]}

ExpMeans == {1, 3}

expVars == <<ek, ew, x_pc, x_mean, x_a, x_b, x_path, x_f, x_val, x_reads>>

ExpIdle ==
    /\ ek = <<>> /\ ew = <<>>
    /\ x_pc = "off" /\ x_mean = 1 /\ x_a = 0 /\ x_b = 0
    /\ x_path = "none" /\ x_f = 0 /\ x_val = 0 /\ x_reads = {}

(***************************************************************************)
(* detail::hash_impl_t and SeedSeq, at their true width                    *)
(*                                                                         *)
(* A uint64_t is the tuple of its 8 bytes and a uint32_t the tuple of its  *)
(* 4 bytes, least significant byte first.                                  *)
(***************************************************************************)
Byte == 2 ^ 8

\* 0x9e3779b97f4a7c15
HASH_INC == <<21, 124, 74, 127, 185, 121, 55, 158>>
\* 0x3423da0b87484307
HASH_INIT_A == <<7, 67, 72, 135, 11, 218, 35, 52>>
\* 0xdf8b06c40fa44478
HASH_INIT_B == <<120, 68, 164, 15, 196, 6, 139, 223>>

\* SeedSeq256 = SeedSeq<8>
SEEDSEQ_COUNT == 8
\* std::tuple_size of seed_type
SEED_WORDS == STYPE_BITS \div U32_BITS

\* A small value as a uint32_t.
U32Bytes(x) == <<x % Byte, (x \div Byte) % Byte, 0, 0>>

\* x + y in uint64_t
RECURSIVE AddFrom(_, _, _, _)
AddFrom(x, y, i, carry) ==
    IF i > 8 THEN <<>>
    ELSE <<(x[i] + y[i] + carry) % Byte>>
             \o AddFrom(x, y, i + 1, (x[i] + y[i] + carry) \div Byte)

Add64(x, y) == AddFrom(x, y, 1, 0)

\* The sum of the byte products of w and the uint32_t u that land on byte k.
RECURSIVE MulColumn(_, _, _, _)
MulColumn(w, u, k, j) ==
    IF j > 4 THEN 0
    ELSE (IF k + 1 - j \in 1 .. 8 THEN w[k + 1 - j] * u[j] ELSE 0)
             + MulColumn(w, u, k, j + 1)

RECURSIVE MulFrom(_, _, _, _)
MulFrom(w, u, k, carry) ==
    IF k > 8 THEN <<>>
    ELSE <<(MulColumn(w, u, k, 1) + carry) % Byte>>
             \o MulFrom(w, u, k + 1, (MulColumn(w, u, k, 1) + carry) \div Byte)

\* w * u in uint64_t, u a uint32_t
Mul64(w, u) == MulFrom(w, u, 1, 0)

\* A term that leaves the input out: sum += next_num().
HashTermNoInput(w, u) == w

\* next_num() * u
HashTerm(w, u) == Mul64(w, u)

\* static_cast<uint32_t>(sum >> 32)
High32(sum) == SubSeq(sum, 5, 8)

\* for(auto it = it1; it != it2; ++it): the Weyl value and the sum after the
\* inputs from the i-th on.
RECURSIVE HashInputs(_, _, _, _, _)
HashInputs(w, sum, in, i, inc) ==
    IF i > Len(in) THEN [w |-> w, sum |-> sum]
    ELSE HashInputs(Add64(w, inc), Add64(sum, HashTerm(Add64(w, inc), in[i])),
                    in, i + 1, inc)

\* for(auto out = itA; out != itB; ++out): n outputs, from the Weyl value w.
RECURSIVE HashSlots(_, _, _, _)
HashSlots(w, in, n, inc) ==
    IF n = 0 THEN <<>>
    ELSE LET w1 == Add64(w, inc)
             r == HashInputs(w1, w1, in, 1, inc)
             w2 == Add64(r.w, inc)
         IN  <<High32(Add64(r.sum, w2))>> \o HashSlots(w2, in, n - 1, inc)

hash_implA(in, n) == HashSlots(HASH_INIT_A, in, n, HASH_INC)
hash_implB(in, n) == HashSlots(HASH_INIT_B, in, n, HASH_INC)

\* SeedSeq::Seed(begin, end): the internal state.
SeedSeqSeed(in) == hash_implA(in, SEEDSEQ_COUNT)

\* SeedSeq::Generate(begin, end) into n words.
SeedSeqGenerate(state, n) == hash_implB(state, n)

SeedSeqs == {1, 2}
SeedInputs == 0 .. MaxSeedInput

seedVars == <<q_in, q_state, q_seed>>

SeedIdle ==
    /\ q_in = [i \in SeedSeqs |-> -1]
    /\ q_state = [i \in SeedSeqs |-> <<>>]
    /\ q_seed = [i \in SeedSeqs |-> <<>>]

rangeVars == <<r_range, r_x, r_pc, r_ret, r_redrawn>>
engineVars == <<state_, log, out, pos>>

RangeIdle == r_range = 0 /\ r_x = 0 /\ r_pc = "off" /\ r_ret = 0 /\ r_redrawn = FALSE

(***************************************************************************)
(* Spec: two engines built from the same seed material.  Engine 1 performs *)
(* operations; engine 2 performs the same operations, in the same order,   *)
(* at any later time.                                                      *)
(***************************************************************************)
Init ==
    /\ \E c \in Ctors : state_ = [e \in Engines |-> Construct(c)]
    /\ log = <<>>
    /\ out = [e \in Engines |-> <<>>]
    /\ pos = 0
    /\ RangeIdle
    /\ TableIdle
    /\ ExpIdle
    /\ SeedIdle

Perform(o) ==
    /\ LET r == Exec(o, state_[1])
       IN  /\ r.done
           /\ state_' = Store(state_, 1, r.st)
           /\ out' = [out EXCEPT ![1] = Append(@, [ret |-> r.ret, fault |-> r.fault])]
    /\ log' = Append(log, o)
    /\ UNCHANGED <<pos, rangeVars, tableVars, expVars, seedVars>>

DoSetState ==
    /\ Len(log) < MaxOps
    /\ \E s \in SeedStates : Perform(Op("SetState", <<s>>))

DoSeed ==
    /\ Len(log) < MaxOps
    /\ \E a \in SeedArrays : Perform(Op("Seed", a))

DoAdvance ==
    /\ Len(log) < MaxOps
    /\ Perform(Op("Advance", <<>>))

DoDiscard ==
    /\ Len(log) < MaxOps
    /\ \E k \in 0 .. MaxDiscard : Perform(Op("Discard", <<k>>))

DoCall ==
    /\ Len(log) < MaxOps
    /\ Perform(Op("call", <<>>))

DoBits ==
    /\ Len(log) < MaxOps
    /\ \E b \in BitCounts : Perform(Op("bits", <<b>>))

DoU32 ==
    /\ Len(log) < MaxOps
    /\ Perform(Op("u32", <<>>))

DoU32Pair ==
    /\ Len(log) < MaxOps
    /\ Perform(Op("u32_pair", <<>>))

DoU64 ==
    /\ Len(log) < MaxOps
    /\ Perform(Op("u64", <<>>))

DoU64Range ==
    /\ Len(log) < MaxOps
    /\ \E range \in 0 .. MaxRange : Perform(Op("u64r", <<range>>))

Replay ==
    /\ pos < Len(log)
    /\ LET r == Exec(log[pos + 1], state_[2])
       IN  /\ r.done
           /\ state_' = Store(state_, 2, r.st)
           /\ out' = [out EXCEPT ![2] = Append(@, [ret |-> r.ret, fault |-> r.fault])]
    /\ pos' = pos + 1
    /\ UNCHANGED <<log, rangeVars, tableVars, expVars, seedVars>>

Next ==
    \/ DoSetState
    \/ DoSeed
    \/ DoAdvance
    \/ DoDiscard
    \/ DoCall
    \/ DoBits
    \/ DoU32
    \/ DoU32Pair
    \/ DoU64
    \/ DoU64Range
    \/ Replay

Spec == Init /\ [][Next]_vars

(***************************************************************************)
(* SpecRange: one call of random_u64_range, draw by draw, on any stream of *)
(* raw draws.                                                              *)
(***************************************************************************)
EngineIdle ==
    /\ state_ = [e \in Engines |-> SetState(DefaultState)]
    /\ log = <<>>
    /\ out = [e \in Engines |-> <<>>]
    /\ pos = 0

InitRange ==
    /\ EngineIdle
    /\ r_range \in U64
    /\ r_x = 0
    /\ r_pc = "idle"
    /\ r_ret = 0
    /\ r_redrawn = FALSE
    /\ TableIdle
    /\ ExpIdle
    /\ SeedIdle

\* Lines 140-143 and the first test of the loop at line 153.
RangeStart ==
    /\ r_pc = "idle"
    /\ \E x \in U64 :
        /\ r_x' = x
        /\ IF RangeFirstRejects(x, r_range)
           THEN r_pc' = "loop" /\ r_ret' = r_ret
           ELSE r_pc' = "ret" /\ r_ret' = RangeHigh(x, r_range)
    /\ UNCHANGED <<engineVars, tableVars, expVars, seedVars, r_range, r_redrawn>>

\* Lines 154-156 and the next test of the loop.
RangeRedraw ==
    /\ r_pc = "loop"
    /\ \E x \in U64 :
        /\ r_x' = x
        /\ IF RangeLoopRejects(x, r_range)
           THEN r_pc' = "loop" /\ r_ret' = r_ret
           ELSE r_pc' = "ret" /\ r_ret' = RangeHigh(x, r_range)
    /\ r_redrawn' = TRUE
    /\ UNCHANGED <<engineVars, tableVars, expVars, seedVars, r_range>>

NextRange == RangeStart \/ RangeRedraw

SpecRange == InitRange /\ [][NextRange]_vars

(***************************************************************************)
(* SpecAlias: a default-constructed AliasTable is constructed from any     *)
(* weight vector, possibly constructed again from another one, and queried.*)
(***************************************************************************)
InitAlias ==
    /\ EngineIdle
    /\ RangeIdle
    /\ ExpIdle
    /\ SeedIdle
    /\ a_ = <<>> /\ p_ = <<>> /\ shr_ = 0
    /\ t_pc = "new" /\ t_n = 0 /\ t_w = <<>>
    /\ t_main = {} /\ t_final = {} /\ t_u = 0 /\ t_ret = 0

Build(w) ==
    LET r == CreateInplace(w, a_, p_)
    IN  /\ a_' = r.a
        /\ p_' = r.p
        /\ shr_' = r.shr
        /\ t_pc' = "built"
        /\ t_n' = t_n + 1
        /\ t_w' = w
        /\ t_main' = r.main
        /\ t_final' = r.final
        /\ UNCHANGED <<engineVars, rangeVars, expVars, seedVars, t_u, t_ret>>

\* AliasTable::Create / CreateInplace on a new instance.
Create ==
    /\ t_pc = "new"
    /\ \E w \in Weights : Build(w)

\* AliasTable::Create / CreateInplace on an instance that holds a table.
CreateAgain ==
    /\ t_pc = "built"
    /\ t_n = 1
    /\ \E w \in AgainWeights : Build(w)

\* AliasTable::Get(u) / operator()(u) on a constructed table.
Query ==
    /\ t_pc = "built"
    /\ \E u \in U64 :
        /\ t_u' = u
        /\ t_ret' = Get(u)
    /\ t_pc' = "queried"
    /\ UNCHANGED <<engineVars, rangeVars, expVars, seedVars, a_, p_, shr_, t_n, t_w, t_main, t_final>>

NextAlias == Create \/ CreateAgain \/ Query

SpecAlias == InitAlias /\ [][NextAlias]_vars

(***************************************************************************)
(* SpecExp: one call of Random::exp(mean), draw by draw, on any stream of  *)
(* raw draws and for ziggurat tables with non-negative ew.                 *)
(***************************************************************************)
InitExp ==
    /\ EngineIdle
    /\ RangeIdle
    /\ TableIdle
    /\ SeedIdle
    /\ ek \in EkTables
    /\ ew \in EwTables
    /\ x_pc = "idle" /\ x_mean = 1 /\ x_a = 0 /\ x_b = 0
    /\ x_path = "none" /\ x_f = 0 /\ x_val = 0 /\ x_reads = {}

ExpFrame == UNCHANGED <<engineVars, rangeVars, tableVars, seedVars, ek, ew>>

\* return a * ew[b], scaled by mean in Random::exp
ExpReturn(path, a, b, mean) ==
    /\ x_pc' = "ret"
    /\ x_path' = path
    /\ x_val' = a * ew[b] * mean

\* random_exp_zig, lines 206-211: the first draw and the core test.
ExpStart ==
    /\ x_pc = "idle"
    /\ \E mean \in ExpMeans, u \in U64 :
        LET a == random_i63(u)
            b == LayerOf(a)
        IN  /\ x_mean' = mean
            /\ x_a' = a
            /\ x_b' = b
            /\ x_reads' = {}
            /\ x_f' = 0
            /\ IF a <= ek[b]
               THEN ExpReturn("core", a, b, mean)
               ELSE x_pc' = "loop" /\ x_path' = "none" /\ x_val' = 0
    /\ ExpFrame

\* random_exp_zig_internal, lines 191-193: the tail.
ExpTail ==
    /\ x_pc = "loop"
    /\ x_b = 0
    /\ \E u \in U64 : x_f' = random_f52(u)
    /\ x_pc' = "ret"
    /\ x_path' = "tail"
    /\ UNCHANGED <<x_mean, x_a, x_b, x_val, x_reads>>
    /\ ExpFrame

\* random_exp_zig_internal, lines 194-197: the wedge test, which reads
\* ef[b - 1] and ef[b]; its draw only feeds the comparison, whose outcome
\* is open.
ExpWedge ==
    /\ x_pc = "loop"
    /\ x_b # 0
    /\ x_reads' = x_reads \cup {x_b - 1, x_b}
    /\ \E accept \in BOOLEAN :
        IF accept
        THEN ExpReturn("wedge", x_a, x_b, x_mean)
        ELSE x_pc' = "redraw" /\ x_path' = "none" /\ x_val' = 0
    /\ UNCHANGED <<x_mean, x_a, x_b, x_f>>
    /\ ExpFrame

\* random_exp_zig_internal, lines 198-201: the next a and b, and the loop
\* test.
ExpRedraw ==
    /\ x_pc = "redraw"
    /\ \E u \in U64 :
        LET a == random_i63(u)
            b == LayerOf(a)
        IN  /\ x_a' = a
            /\ x_b' = b
            /\ IF a > ek[b]
               THEN x_pc' = "loop" /\ x_path' = "none" /\ x_val' = 0
               ELSE ExpReturn("core", a, b, x_mean)
    /\ UNCHANGED <<x_mean, x_f, x_reads>>
    /\ ExpFrame

NextExp == ExpStart \/ ExpTail \/ ExpWedge \/ ExpRedraw

SpecExp == InitExp /\ [][NextExp]_vars

(***************************************************************************)
(* SpecSeedSeq: two SeedSeq256 objects, each seeded from one value, as in  *)
(* Random::Seed(uint32_t), and each asked for the engine's seed material.  *)
(***************************************************************************)
InitSeedSeq ==
    /\ EngineIdle
    /\ RangeIdle
    /\ TableIdle
    /\ ExpIdle
    /\ SeedIdle

\* SeedSeq256 ss({s})
SeedSeqConstruct ==
    /\ \E i \in SeedSeqs, s \in SeedInputs :
        /\ q_in' = [q_in EXCEPT ![i] = s]
        /\ q_state' = [q_state EXCEPT ![i] = SeedSeqSeed(<<U32Bytes(s)>>)]
        /\ q_seed' = [q_seed EXCEPT ![i] = <<>>]
    /\ UNCHANGED <<engineVars, rangeVars, tableVars, expVars>>

\* ss.Generate(seed.begin(), seed.end()) in Random::Seed(const SeedSeq &)
SeedSeqFill ==
    /\ \E i \in SeedSeqs :
        /\ q_in[i] >= 0
        /\ q_seed[i] = <<>>
        /\ q_seed' = [q_seed EXCEPT ![i] = SeedSeqGenerate(q_state[i], SEED_WORDS)]
    /\ UNCHANGED <<engineVars, rangeVars, tableVars, expVars, q_in, q_state>>

NextSeedSeq == SeedSeqConstruct \/ SeedSeqFill

SpecSeedSeq == InitSeedSeq /\ [][NextSeedSeq]_vars

(***************************************************************************)
(* The claims.                                                             *)
(***************************************************************************)

\* C1: for range > 0, random_u64_range is exactly uniform over [0, range):
\* a raw draw x is accepted (as the first draw and as a redraw) iff
\* (x * range mod 2^w) >= 2^w mod range, every v in [0, range) is the high
\* word of x * range for exactly floor(2^w / range) accepted x, and a call
\* returns the high word of an accepted draw, which is below range.
C1_RangeUniform ==
    r_range > 0 =>
        LET t == Pow2(U64_BITS) % r_range
            low(x) == (x * r_range) % Pow2(U64_BITS)
            high(x) == (x * r_range) \div Pow2(U64_BITS)
            Accepted(x) == random_u64_range(r_range, <<x>>).used = 1
        IN  /\ r_pc = "idle" =>
                /\ \A x \in U64 : Accepted(x) <=> low(x) >= t
                /\ \A x \in U64 : RangeLoopRejects(x, r_range) <=> low(x) < t
                /\ \A x \in U64 :
                       Accepted(x) => random_u64_range(r_range, <<x>>).ret = high(x)
                /\ \A v \in 0 .. r_range - 1 :
                       Cardinality({x \in U64 : Accepted(x) /\ high(x) = v})
                           = Pow2(U64_BITS) \div r_range
                /\ \A x \in U64 : Accepted(x) => high(x) < r_range
            /\ r_pc = "ret" =>
                /\ low(r_x) >= t
                /\ r_ret = high(r_x)
                /\ r_ret < r_range

\* C1 witness: a call with range 3 that rejected a draw, drew again and
\* returned the largest value of the range.
C1_Witness ==
    r_pc = "ret" /\ r_range = 3 /\ r_redrawn /\ r_ret = 2

(***************************************************************************)
(* What the claims about the alias table speak of.                         *)
(***************************************************************************)
TableBuilt == t_pc \in {"built", "queried"}
TableSize == Cardinality(DOMAIN a_)
WeightCount == Len(t_w)
WeightSum == SumTo(t_w, Len(t_w))
WeightAt(i) == IF i < WeightCount THEN t_w[i + 1] ELSE 0

RECURSIVE SumFn(_, _)
SumFn(f, k) == IF k = 0 THEN 0 ELSE f[k - 1] + SumFn(f, k - 1)

\* Out of TableSize * 2^32 equally likely (slot, comparison value) pairs, the
\* number that give index i: slot i below its threshold, and every slot
\* whose alias is i at or above its threshold.
TableMass(i) ==
    SumFn([s \in 0 .. TableSize - 1 |->
              (IF s = i THEN p_[s] ELSE 0)
              + (IF a_[s] = i THEN Pow2(U32_BITS) - p_[s] ELSE 0)],
          TableSize)

IsPow2(x) == \E k \in 0 .. U64_BITS : x = Pow2(k)

\* C2: a table constructed from weights with a positive sum encodes the
\* input distribution up to the rounding of the thresholds: index i gets
\* TableSize * 2^32 * weight[i] / sum pairs, less than one pair fewer (the
\* truncation of its own threshold) and at most one pair more for each slot
\* whose alias it is.
C2_TableEncodesWeights ==
    (TableBuilt /\ WeightSum > 0) =>
        \A i \in 0 .. TableSize - 1 :
            LET diff == TableMass(i) * WeightSum
                            - TableSize * Pow2(U32_BITS) * WeightAt(i)
                others == Cardinality({s \in 0 .. TableSize - 1 : s # i /\ a_[s] = i})
            IN  /\ diff > -WeightSum
                /\ diff <= others * WeightSum

\* C2 witness: the table of the weights [3, 1], where index 0 gets three
\* quarters of the pairs through its own slot and as the alias of slot 1.
C2_Witness ==
    /\ TableBuilt
    /\ t_w = <<3, 1>>
    /\ a_[1] = 0
    /\ 0 < p_[1] /\ p_[1] < U32_MAX
    /\ 4 * TableMass(0) = 3 * TableSize * Pow2(U32_BITS)

\* C3 (the claim as stated): on a table constructed from weights with a
\* positive sum, Get(u) takes the slot from the top bits of u, so
\* that every slot of the table is selected by the same number of draws, and
\* the comparison value from the low 32 bits of u, and returns the slot when
\* the comparison value is below its threshold and its alias otherwise.
C3_GetSplitsDraw ==
    (t_pc = "queried" /\ WeightSum > 0) =>
        LET k == CHOOSE j \in 0 .. U64_BITS : Pow2(j) = TableSize
            slot == Shr(t_u, U64_BITS - k)
            cmp == Trunc(t_u, U32_BITS)
        IN  /\ GetSlot(t_u) = slot
            /\ GetCmp(t_u) = cmp
            /\ t_ret = IF cmp < p_[slot] THEN slot ELSE a_[slot]
            /\ \A s \in 0 .. TableSize - 1 :
                   Cardinality({u \in U64 : GetSlot(u) = s})
                       = Pow2(U64_BITS) \div TableSize

C7_SeedSpread ==
    \A i, j \in SeedSeqs :
        (q_seed[i] # <<>> /\ q_seed[j] # <<>>) =>
            (q_in[i] = q_in[j] <=> q_seed[i] = q_seed[j])

\* C7 witness: the objects seeded from {1} and {2} have both generated, and
\* the seed material of {1} starts with the word 0x5a6115a8.
C7_Witness ==
    /\ q_in[1] = 1
    /\ q_in[2] = 2
    /\ Len(q_seed[1]) = 4
    /\ Len(q_seed[2]) = 4
    /\ q_seed[1][1] = <<168, 21, 97, 90>>
    /\ q_seed[1] # q_seed[2]

\* C8: for mean > 0 and non-negative ew, every value Random::exp returns is
\* non-negative: it is a * ew[b] * mean with a the draw shifted right by one,
\* in [0, 2^63), and b = a & 255 a layer, or it is the tail value r - log f
\* with the f52 draw f strictly inside (0, 1); ef is read at b - 1 only when
\* b >= 1, so every index read is a layer.
C8_ExpNonNegative ==
    /\ x_pc = "ret" =>
        /\ x_path \in {"core", "wedge", "tail"}
        /\ x_path \in {"core", "wedge"} =>
            /\ x_a \in 0 .. Pow2(U64_BITS - 1) - 1
            /\ x_b \in Layers
            /\ x_b = x_a % Pow2(LAYER_BITS)
            /\ x_val = x_a * ew[x_b] * x_mean
            /\ x_val >= 0
        /\ x_path = "tail" =>
            /\ 0 < x_f
            /\ x_f < Pow2(MANT_BITS + 1)
    /\ x_reads \subseteq Layers

\* C8 witness: a call that failed the core test, was rejected in the wedge,
\* drew again and returned a positive product from the wedge of layer 1.
C8_Witness ==
    /\ x_pc = "ret"
    /\ x_path = "wedge"
    /\ x_reads = {0, 1, 2}
    /\ x_b = 1
    /\ x_val > 0
    /\ x_mean = 3

\* C9: after CreateInplace every slot has been assigned by this construction,
\* by the main loop or by the fill-in, which stores the largest threshold and
\* the slot itself as alias; every alias is an index of the table.
C9_EverySlotAssigned ==
    TableBuilt =>
        /\ DOMAIN a_ = 0 .. Pow2(U64_BITS - shr_) - 1
        /\ DOMAIN p_ = DOMAIN a_
        /\ t_main \cup t_final = DOMAIN a_
        /\ \A i \in t_final : p_[i] = U32_MAX /\ a_[i] = i
        /\ \A i \in DOMAIN a_ : a_[i] \in DOMAIN a_ /\ p_[i] \in 0 .. U32_MAX

\* C9 witness: a second construction on the same instance, in which the main
\* loop assigned some slots and the fill-in the others.
C9_Witness ==
    /\ TableBuilt
    /\ t_n = 2
    /\ t_main # {}
    /\ t_final # {}
    /\ t_main \cap t_final = {}

C6_RangeZeroFaults ==
    \A i \in 1 .. Len(log) :
        (log[i].op = "u64r" /\ log[i].arg = <<0>>) => out[1][i].fault

====
